---------------------------- MODULE Spec2Model ----------------------------
(***************************************************************************)
(* Model of "Filtro Media Movel/moving-average-filter.c".  The file holds   *)
(* two CCS-C firmware images for the PIC16F874 (8-bit ADC): the moving      *)
(* average filter (lines 1-33) and the median-of-three filter (lines        *)
(* 36-83).  In CCS C int8 and int16 are unsigned.  The variable prog tells  *)
(* which image runs; pc is the position of its single thread of control.    *)
(*                                                                          *)
(* samples, emitted and strobe are history variables: the ADC values read   *)
(* and the port-D values written since the top of the current outer-loop   *)
(* iteration, and the port events since the last port-D write: "D" for that *)
(* write, "low" and "high" for the levels driven on PIN_C0.                 *)
(***************************************************************************)
EXTENDS Integers, Sequences, FiniteSets

VARIABLES prog, pc, i, sum_voltage, avg_voltage, voltage, median_value,
          pinC0, portD, samples, emitted, strobe

vars == <<prog, pc, i, sum_voltage, avg_voltage, voltage, median_value,
          pinC0, portD, samples, emitted, strobe>>

---------------------------------------------------------------------------
(* Program constants *)

\* #device adc=8: read_adc() returns 0..ADC_MAX
ADC_MAX == 255

\* for(i = 0; i < 5; i++) and sum_voltage / 5
AVG_SAMPLES == 5

\* #define NUM_SAMPLES 10
NUM_SAMPLES == 10

(* Bounds of the model *)

\* the ADC levels of the free input streams are 0..MaxLevel and ADC_MAX
MaxLevel == 1

\* the arguments of median() drawn by InitMedian are 0..MaxArg, 7, 9 and
\* ADC_MAX
MaxArg == 5

---------------------------------------------------------------------------
(* Machine arithmetic *)

\* int8: 8-bit unsigned
Int8(x) == x % 256

\* the accumulator declared int8 instead of int16
Int16_asInt8(x) == x % 256

\* int16: 16-bit unsigned
Int16(x) == x % 65536

\* An uninitialised int8 / int16 local, or the port latch at power-on
Garbage8 == {0, ADC_MAX}

Garbage16 == {0, 65535}

---------------------------------------------------------------------------
(* The analog input.  Within one outer-loop iteration the ADC delivers one  *)
(* of a bounded set of input streams; read_adc gives the values the next    *)
(* read can return after the reads in trace.                                *)

Levels == (0..MaxLevel) \cup {ADC_MAX}

RECURSIVE SeqsOver(_, _)
SeqsOver(S, n) ==
  IF n = 0 THEN {<<>>}
  ELSE {Append(t, s) : t \in SeqsOver(S, n - 1), s \in S}

AvgStreams ==
  SeqsOver(Levels, AVG_SAMPLES)
    \cup {<<10, 20, 30, 40, 50>>, <<1, 1, 1, 1, 2>>, <<2, 4, 6, 8, 10>>,
          <<ADC_MAX, ADC_MAX, ADC_MAX, ADC_MAX, 254>>}

Const(v) == [j \in 1..NUM_SAMPLES |-> v]

OneOutlier(v, x, p) == [j \in 1..NUM_SAMPLES |-> IF j = p THEN x ELSE v]

Alternating(v, x) == [j \in 1..NUM_SAMPLES |-> IF j % 2 = 1 THEN v ELSE x]

StepAt(v, x, p) == [j \in 1..NUM_SAMPLES |-> IF j < p THEN v ELSE x]

Ramp(start, step) == [j \in 1..NUM_SAMPLES |-> start + step * (j - 1)]

RampSteps == {1, 28}

MedStreams ==
  {Const(v) : v \in Levels}
    \cup {OneOutlier(v, x, p) : v \in Levels, x \in Levels, p \in 1..NUM_SAMPLES}
    \cup {Alternating(v, x) : v \in Levels, x \in Levels}
    \cup {StepAt(v, x, p) : v \in Levels, x \in Levels, p \in {4, 8}}
    \cup {r \in {Ramp(s, d) : s \in 0..MaxLevel, d \in RampSteps} :
            r[NUM_SAMPLES] <= ADC_MAX}
    \cup {<<1, 9, 2, 8, 3, 7, 4, 6, 5, 5>>}

read_adc(streams, trace) ==
  {st[Len(trace) + 1] :
     st \in {t \in streams : Len(t) > Len(trace)
                             /\ SubSeq(t, 1, Len(trace)) = trace}}

---------------------------------------------------------------------------
(* Moving-average image, lines 6-33 *)

NoVoltage == [j \in 0..(NUM_SAMPLES + 1) |-> 0]

InitAvg ==
  /\ prog = "avg"
  /\ pc = "setup"
  /\ i \in Garbage8
  /\ sum_voltage \in Garbage16
  /\ avg_voltage \in Garbage8
  /\ voltage = NoVoltage
  /\ median_value = 0
  /\ pinC0 \in {0, 1}
  /\ portD \in Garbage8
  /\ samples = <<>>
  /\ emitted = <<>>
  /\ strobe = <<>>

\* the setup without its output_high(PIN_C0)
Avg_Setup_no_high ==
  /\ prog = "avg" /\ pc = "setup"
  /\ pc' = "while"
  /\ UNCHANGED <<prog, i, sum_voltage, avg_voltage, voltage, median_value,
                 pinC0, portD, samples, emitted, strobe>>

\* lines 11-15: ADC setup, output_high(PIN_C0)
Avg_Setup ==
  /\ prog = "avg" /\ pc = "setup"
  /\ pinC0' = 1
  /\ strobe' = Append(strobe, "high")
  /\ pc' = "while"
  /\ UNCHANGED <<prog, i, sum_voltage, avg_voltage, voltage, median_value,
                 portD, samples, emitted>>

\* the loop top without its sum_voltage = 0
Avg_LoopTop_no_reset ==
  /\ prog = "avg" /\ pc = "while"
  /\ i' = 0
  /\ samples' = <<>>
  /\ emitted' = <<>>
  /\ pc' = "for_read"
  /\ UNCHANGED <<prog, sum_voltage, avg_voltage, voltage, median_value, pinC0,
                 portD, strobe>>

\* lines 17-20: while(1) { sum_voltage = 0; for(i = 0; ...
Avg_LoopTop ==
  /\ prog = "avg" /\ pc = "while"
  /\ sum_voltage' = 0
  /\ i' = 0
  /\ samples' = <<>>
  /\ emitted' = <<>>
  /\ pc' = "for_read"
  /\ UNCHANGED <<prog, avg_voltage, voltage, median_value, pinC0, portD, strobe>>

\* line 20: i < 5
AvgLoopCond(k) == k < AVG_SAMPLES

\* lines 20-23: delay_ms(1); sum_voltage += read_adc(); i++
Avg_Read ==
  /\ prog = "avg" /\ pc = "for_read"
  /\ AvgLoopCond(i)
  /\ \E s \in read_adc(AvgStreams, samples) :
       /\ sum_voltage' = Int16(sum_voltage + s)
       /\ samples' = Append(samples, s)
  /\ i' = Int8(i + 1)
  /\ UNCHANGED <<prog, pc, avg_voltage, voltage, median_value, pinC0, portD,
                 emitted, strobe>>

\* the division done as a shift by two
Average_by_shift(sum) == Int8(sum \div 4)

\* line 26: sum_voltage / 5, assigned to an int8
Average(sum) == Int8(sum \div AVG_SAMPLES)

\* lines 20, 26: the for loop ends; avg_voltage = sum_voltage / 5
Avg_Compute ==
  /\ prog = "avg" /\ pc = "for_read"
  /\ ~AvgLoopCond(i)
  /\ avg_voltage' = Average(sum_voltage)
  /\ pc' = "output_d"
  /\ UNCHANGED <<prog, i, sum_voltage, voltage, median_value, pinC0, portD,
                 samples, emitted, strobe>>

\* line 28: output_d(avg_voltage)
Avg_OutputD ==
  /\ prog = "avg" /\ pc = "output_d"
  /\ portD' = avg_voltage
  /\ emitted' = Append(emitted, avg_voltage)
  /\ strobe' = <<"D">>
  /\ pc' = "output_low"
  /\ UNCHANGED <<prog, i, sum_voltage, avg_voltage, voltage, median_value,
                 pinC0, samples>>

\* line 29: output_low(PIN_C0)
Avg_OutputLow ==
  /\ prog = "avg" /\ pc = "output_low"
  /\ pinC0' = 0
  /\ strobe' = Append(strobe, "low")
  /\ pc' = "output_high"
  /\ UNCHANGED <<prog, i, sum_voltage, avg_voltage, voltage, median_value,
                 portD, samples, emitted>>

\* the body run once: main returns
AvgAfterStrobe_exit == "exit"

\* where control goes after line 31: back to while(1)
AvgAfterStrobe == "while"

\* lines 30-32: delay_ms(10); output_high(PIN_C0); end of the while body
Avg_OutputHigh ==
  /\ prog = "avg" /\ pc = "output_high"
  /\ pinC0' = 1
  /\ strobe' = Append(strobe, "high")
  /\ pc' = AvgAfterStrobe
  /\ UNCHANGED <<prog, i, sum_voltage, avg_voltage, voltage, median_value,
                 portD, samples, emitted>>

NextAvg ==
  \/ Avg_Setup
  \/ Avg_LoopTop
  \/ Avg_Read
  \/ Avg_Compute
  \/ Avg_OutputD
  \/ Avg_OutputLow
  \/ Avg_OutputHigh

SpecAvg == InitAvg /\ [][NextAvg]_vars

---------------------------------------------------------------------------
(* Median image, lines 41-83 *)

\* the first swap written without temp: a = b; b = a
median_lost_temp(a, b, c) ==
  LET s1 == IF a > b THEN <<b, b, c>> ELSE <<a, b, c>>
      s2 == IF s1[1] > s1[3] THEN <<s1[3], s1[2], s1[1]>> ELSE s1
      s3 == IF s2[2] > s2[3] THEN <<s2[1], s2[3], s2[2]>> ELSE s2
  IN  s3[2]

\* lines 44-51: int8 median(int8 a, int8 b, int8 c); s1..s3 are (a, b, c)
\* after each compare-and-swap
median(a, b, c) ==
  LET s1 == IF a > b THEN <<b, a, c>> ELSE <<a, b, c>>
      s2 == IF s1[1] > s1[3] THEN <<s1[3], s1[2], s1[1]>> ELSE s1
      s3 == IF s2[2] > s2[3] THEN <<s2[1], s2[3], s2[2]>> ELSE s2
  IN  s3[2]

InitMed ==
  /\ prog = "med"
  /\ pc = "setup"
  /\ i \in Garbage8
  /\ sum_voltage = 0
  /\ avg_voltage = 0
  /\ voltage \in {[j \in 0..(NUM_SAMPLES + 1) |-> g] : g \in Garbage8}
  /\ median_value \in Garbage8
  /\ pinC0 \in {0, 1}
  /\ portD \in Garbage8
  /\ samples = <<>>
  /\ emitted = <<>>
  /\ strobe = <<>>

\* lines 58-62: ADC setup, output_high(PIN_C0)
Med_Setup ==
  /\ prog = "med" /\ pc = "setup"
  /\ pinC0' = 1
  /\ strobe' = Append(strobe, "high")
  /\ pc' = "while"
  /\ UNCHANGED <<prog, i, sum_voltage, avg_voltage, voltage, median_value,
                 portD, samples, emitted>>

\* lines 64-66: while(1) { for (i = 1; ...
Med_LoopTop ==
  /\ prog = "med" /\ pc = "while"
  /\ i' = 1
  /\ samples' = <<>>
  /\ emitted' = <<>>
  /\ pc' = "for_read"
  /\ UNCHANGED <<prog, sum_voltage, avg_voltage, voltage, median_value,
                 pinC0, portD, strobe>>

\* the read loop one short: i < NUM_SAMPLES
MedReadCond_lt(k) == k < NUM_SAMPLES

\* line 66: i <= NUM_SAMPLES
MedReadCond(k) == k <= NUM_SAMPLES

\* lines 66-69: delay_ms(1); voltage[i] = read_adc(); i++
Med_Read ==
  /\ prog = "med" /\ pc = "for_read"
  /\ MedReadCond(i)
  /\ \E s \in read_adc(MedStreams, samples) :
       /\ voltage' = [voltage EXCEPT ![i] = s]
       /\ samples' = Append(samples, s)
  /\ i' = Int8(i + 1)
  /\ UNCHANGED <<prog, pc, sum_voltage, avg_voltage, median_value, pinC0,
                 portD, emitted, strobe>>

\* the right edge left unpadded
Padded_left_only(v) == [v EXCEPT ![0] = v[1]]

\* lines 71-72: voltage[0] = voltage[1];
\* voltage[NUM_SAMPLES + 1] = voltage[NUM_SAMPLES]
Padded(v) ==
  [v EXCEPT ![0] = v[1], ![NUM_SAMPLES + 1] = v[NUM_SAMPLES]]

\* lines 66, 71-75: the read loop ends; pad both edges; for (i = 0; ...
Med_Pad ==
  /\ prog = "med" /\ pc = "for_read"
  /\ ~MedReadCond(i)
  /\ voltage' = Padded(voltage)
  /\ i' = 0
  /\ pc' = "for_emit"
  /\ UNCHANGED <<prog, sum_voltage, avg_voltage, median_value, pinC0, portD,
                 samples, emitted, strobe>>

\* the emission loop one short: i < NUM_SAMPLES - 1
MedEmitCond_short(k) == k < NUM_SAMPLES - 1

\* line 75: i < NUM_SAMPLES
MedEmitCond(k) == k < NUM_SAMPLES

\* the triplet's middle element taken without sorting
MedianOfWindow_unsorted(v, k) == v[k + 1]

\* line 76: median(voltage[i], voltage[i + 1], voltage[i + 2])
MedianOfWindow(v, k) == median(v[k], v[k + 1], v[k + 2])

\* lines 75-76: median_value = median(voltage[i], voltage[i+1], voltage[i+2])
Med_Median ==
  /\ prog = "med" /\ pc = "for_emit"
  /\ MedEmitCond(i)
  /\ median_value' = MedianOfWindow(voltage, i)
  /\ pc' = "output_d"
  /\ UNCHANGED <<prog, i, sum_voltage, avg_voltage, voltage, pinC0, portD,
                 samples, emitted, strobe>>

\* line 77: output_d(median_value)
Med_OutputD ==
  /\ prog = "med" /\ pc = "output_d"
  /\ portD' = median_value
  /\ emitted' = Append(emitted, median_value)
  /\ strobe' = <<"D">>
  /\ pc' = "output_low"
  /\ UNCHANGED <<prog, i, sum_voltage, avg_voltage, voltage, median_value,
                 pinC0, samples>>

\* line 78: output_low(PIN_C0)
Med_OutputLow ==
  /\ prog = "med" /\ pc = "output_low"
  /\ pinC0' = 0
  /\ strobe' = Append(strobe, "low")
  /\ pc' = "output_high"
  /\ UNCHANGED <<prog, i, sum_voltage, avg_voltage, voltage, median_value,
                 portD, samples, emitted>>

\* lines 79-81, 75: delay_ms(10); output_high(PIN_C0); i++
Med_OutputHigh ==
  /\ prog = "med" /\ pc = "output_high"
  /\ pinC0' = 1
  /\ strobe' = Append(strobe, "high")
  /\ i' = Int8(i + 1)
  /\ pc' = "for_emit"
  /\ UNCHANGED <<prog, sum_voltage, avg_voltage, voltage, median_value,
                 portD, samples, emitted>>

\* where control goes after line 81: back to while(1)
MedAfterEmit == "while"

\* lines 75, 82: the emission loop ends; end of the while body
Med_LoopEnd ==
  /\ prog = "med" /\ pc = "for_emit"
  /\ ~MedEmitCond(i)
  /\ pc' = MedAfterEmit
  /\ UNCHANGED <<prog, i, sum_voltage, avg_voltage, voltage, median_value,
                 pinC0, portD, samples, emitted, strobe>>

\* the while(1) loop, lines 64-82
NextMedLoop ==
  \/ Med_LoopTop
  \/ Med_Read
  \/ Med_Pad
  \/ Med_Median
  \/ Med_OutputD
  \/ Med_OutputLow
  \/ Med_OutputHigh
  \/ Med_LoopEnd

NextMed == Med_Setup \/ NextMedLoop

SpecMed == InitMed /\ [][NextMed]_vars

\* The arguments median() is checked on
MedianArgs == (0..MaxArg) \cup {7, 9, ADC_MAX}

\* The call of median at line 76 for i = 1, on every triplet (a, b, c) of
\* MedianArgs: the state the image is in after reading the ten samples
\* a, b, c, c, ..., c and emitting their first median
InitMedian ==
  \E a \in MedianArgs, b \in MedianArgs, c \in MedianArgs :
    /\ prog = "med"
    /\ pc = "for_emit"
    /\ i = 1
    /\ sum_voltage = 0
    /\ avg_voltage = 0
    /\ voltage = [j \in 0..(NUM_SAMPLES + 1) |->
                    IF j <= 1 THEN a ELSE IF j = 2 THEN b ELSE c]
    /\ median_value = median(a, a, b)
    /\ pinC0 = 1
    /\ portD = median(a, a, b)
    /\ samples = [j \in 1..NUM_SAMPLES |->
                    IF j = 1 THEN a ELSE IF j = 2 THEN b ELSE c]
    /\ emitted = <<median(a, a, b)>>
    /\ strobe = <<"D", "low", "high">>

SpecMedian == InitMedian /\ [][NextMedLoop]_vars

---------------------------------------------------------------------------
(* Either image *)

Init == InitAvg \/ InitMed

Next == NextAvg \/ NextMed

Spec == Init /\ [][Next]_vars

\* one sequential thread that never blocks: every delay and every ADC
\* conversion returns
FairSpec == Spec /\ WF_vars(Next)

---------------------------------------------------------------------------
(* Properties *)

RECURSIVE SumSeq(_)
SumSeq(s) == IF s = <<>> THEN 0 ELSE s[1] + SumSeq(Tail(s))

NonDecreasing(s) ==
  \A j \in 1..Len(s) : \A k \in j..Len(s) : s[j] <= s[k]

\* m is the middle of a, b, c: one of them, with at least two of the three
\* at or below it and at least two at or above it
IsMiddle(m, a, b, c) ==
  LET t == <<a, b, c>>
  IN  /\ m \in {a, b, c}
      /\ Cardinality({k \in 1..3 : t[k] <= m}) >= 2
      /\ Cardinality({k \in 1..3 : t[k] >= m}) >= 2

Min3(a, b, c) == CHOOSE m \in {a, b, c} : \A x \in {a, b, c} : m <= x

Max3(a, b, c) == CHOOSE m \in {a, b, c} : \A x \in {a, b, c} : m >= x

\* The window of twelve built from ten samples: the first and the last
\* sample repeated at the edges
WindowOf(s) ==
  [j \in 0..11 |-> IF j = 0 THEN s[1] ELSE IF j = 11 THEN s[10] ELSE s[j]]

\* The states of the emission loop of the median image
InEmission ==
  prog = "med" /\ pc \in {"for_emit", "output_d", "output_low", "output_high"}

\* The next step reads the ADC or writes port D
AtReadOrWrite ==
  \/ prog = "avg" /\ pc = "for_read" /\ AvgLoopCond(i)
  \/ prog = "med" /\ pc = "for_read" /\ MedReadCond(i)
  \/ pc = "output_d"

\* C1: in the moving-average image, once port D is written in an iteration,
\* exactly 5 samples were read in it and the value written is the truncated
\* mean floor((s1+s2+s3+s4+s5)/5) of those samples.
C1_MeanOfFive ==
  (prog = "avg" /\ emitted # <<>>) =>
     /\ Len(samples) = 5
     /\ emitted = <<SumSeq(samples) \div 5>>
     /\ portD = SumSeq(samples) \div 5
     /\ (samples = <<10, 20, 30, 40, 50>> => portD = 30)
     /\ (samples = <<1, 1, 1, 1, 2>> => portD = 1)
     /\ (samples = <<2, 4, 6, 8, 10>> => portD = 6)

C1_Witness ==
  /\ prog = "avg" /\ pc = "output_low"
  /\ samples = <<1, 1, 1, 1, 2>>
  /\ portD = 1

\* C2: whenever median() has returned for a triplet (a, b, c), the value is
\* the middle of the three: neither the minimum nor the maximum when the
\* three differ, and the shared value when two of them are equal.
C2_MedianIsMiddle ==
  (prog = "med" /\ pc = "output_d") =>
     LET a == voltage[i]
         b == voltage[i + 1]
         c == voltage[i + 2]
         m == median_value
     IN  /\ IsMiddle(m, a, b, c)
         /\ (Cardinality({a, b, c}) = 3 =>
               m # Min3(a, b, c) /\ m # Max3(a, b, c))
         /\ (a = b => m = a)
         /\ (a = c => m = a)
         /\ (b = c => m = b)
         /\ (<<a, b, c>> = <<5, 5, 9>> => m = 5)
         /\ (<<a, b, c>> = <<3, 7, 5>> => m = 5)

C2_Witness ==
  /\ prog = "med" /\ pc = "output_d" /\ i = 1
  /\ <<voltage[1], voltage[2], voltage[3]>> = <<3, 7, 5>>
  /\ median_value = 5

\* C3: in the median image no value is emitted before all 10 samples of the
\* iteration are read; the k-th value emitted is the median of the k-th
\* triplet of the padded window; when the iteration ends exactly 10 values
\* have been emitted; the stream 1,9,2,8,3,7,4,6,5,5 gives
\* 1,2,8,3,7,4,6,5,5,5.
C3_TenMediansInOrder ==
  prog = "med" =>
     /\ (emitted # <<>> => Len(samples) = 10)
     /\ Len(emitted) <= 10
     /\ \A k \in 1..Len(emitted) :
          emitted[k] = median(WindowOf(samples)[k - 1], WindowOf(samples)[k],
                              WindowOf(samples)[k + 1])
     /\ (InEmission => Len(emitted) = (IF pc \in {"for_emit", "output_d"}
                                       THEN i ELSE i + 1))
     /\ (pc = "while" /\ samples # <<>> => Len(emitted) = 10)
     /\ (pc = "while" /\ samples = <<1, 9, 2, 8, 3, 7, 4, 6, 5, 5>>
           => emitted = <<1, 2, 8, 3, 7, 4, 6, 5, 5, 5>>)

C3_Witness ==
  /\ prog = "med" /\ pc = "while"
  /\ samples = <<1, 9, 2, 8, 3, 7, 4, 6, 5, 5>>
  /\ emitted = <<1, 2, 8, 3, 7, 4, 6, 5, 5, 5>>

\* C4: at every state of the emission loop the window has 12 elements,
\* voltage[0] = voltage[1], voltage[11] = voltage[10], and voltage[1..10]
\* are the 10 samples read in this iteration, in read order.
C4_PaddedWindow ==
  InEmission =>
     /\ DOMAIN voltage = 0..11
     /\ Cardinality(DOMAIN voltage) = 12
     /\ voltage[0] = voltage[1]
     /\ voltage[11] = voltage[10]
     /\ Len(samples) = 10
     /\ \A j \in 1..10 : voltage[j] = samples[j]

C4_Witness ==
  /\ prog = "med" /\ pc = "output_d" /\ i = 9
  /\ samples = <<1, 9, 2, 8, 3, 7, 4, 6, 5, 5>>
  /\ voltage[0] = 1
  /\ voltage[11] = 5

\* C5: in the median image, when the samples of the iteration are in
\* non-decreasing order (in particular, strictly increasing), the values
\* emitted in the iteration are in non-decreasing order.
C5_MonotoneInMonotoneOut ==
  (prog = "med" /\ NonDecreasing(samples)) => NonDecreasing(emitted)

C5_Witness ==
  /\ prog = "med" /\ pc = "while"
  /\ Len(samples) = 10 /\ Len(emitted) = 10
  /\ \A j \in 1..9 : samples[j] < samples[j + 1]
  /\ emitted[1] < emitted[10]

\* C6: PIN_C0 is high whenever the next step reads the ADC or writes port D;
\* right after a port-D write it is still high; and between a port-D write
\* and the next ADC read or port-D write PIN_C0 has been driven low and
\* then high, in that order and nothing else.
C6_StrobeAroundEmission ==
  /\ (AtReadOrWrite =>
        /\ pinC0 = 1
        /\ strobe \in {<<"high">>, <<"D", "low", "high">>})
  /\ (pc = "output_low" => pinC0 = 1 /\ strobe = <<"D">>)
  /\ (pc = "output_high" => pinC0 = 0 /\ strobe = <<"D", "low">>)
  /\ (strobe # <<>> /\ strobe[1] = "D" =>
        strobe \in {<<"D">>, <<"D", "low">>, <<"D", "low", "high">>})

C6_Witness ==
  /\ prog = "med" /\ pc = "output_d" /\ i = 3
  /\ strobe = <<"D", "low", "high">>
  /\ pinC0 = 1

\* C7: no state is terminal (some step is always enabled) and, the single
\* thread being scheduled fairly, port D is written again and again.
C7_RunsForever ==
  /\ [](ENABLED <<Next>>_vars)
  /\ []<><<Avg_OutputD \/ Med_OutputD>>_vars

C7_Witness ==
  /\ prog = "avg" /\ pc = "output_d"
  /\ samples = <<2, 4, 6, 8, 10>>
  /\ portD = 30

\* C8: in the moving-average image, from the reset of the accumulator on,
\* sum_voltage is the exact sum of the samples read so far in the iteration
\* (nothing is lost modulo 2^16): at most 255 per sample, at most 1275; the
\* quotient by 5 is at most 255, and avg_voltage holds it unchanged.
C8_NoOverflow ==
  (prog = "avg" /\ ~(pc \in {"setup", "while"} /\ samples = <<>>)) =>
     /\ sum_voltage = SumSeq(samples)
     /\ sum_voltage <= 255 * Len(samples)
     /\ sum_voltage <= 1275
     /\ sum_voltage < 65536
     /\ sum_voltage \div 5 <= 255
     /\ (pc \in {"output_d", "output_low", "output_high", "while"} =>
           avg_voltage = sum_voltage \div 5)

C8_Witness ==
  /\ prog = "avg" /\ pc = "output_d"
  /\ sum_voltage = 1275
  /\ avg_voltage = 255

\* C9: what an iteration emits is determined by the samples read in that
\* iteration, whatever the earlier iterations (or the uninitialised memory)
\* left behind: the sum restarts from 0, every window element is rewritten
\* before the first triplet is evaluated, and the values emitted are the
\* mean, or the medians, of this iteration's samples.
C9_NoCarryOver ==
  /\ (prog = "avg" /\ pc = "for_read" => sum_voltage = SumSeq(samples))
  /\ (prog = "avg" /\ pc \in {"output_d", "output_low", "output_high"} =>
        avg_voltage = SumSeq(samples) \div 5)
  /\ (prog = "avg" /\ emitted # <<>> => emitted = <<SumSeq(samples) \div 5>>)
  /\ (InEmission => voltage = WindowOf(samples))
  /\ (prog = "med" =>
        \A k \in 1..Len(emitted) :
          IsMiddle(emitted[k], WindowOf(samples)[k - 1], WindowOf(samples)[k],
                   WindowOf(samples)[k + 1]))

\* the previous iteration read 10,20,30,40,50 (port D still holds its 30)
\* and this one computed the mean of 1,1,1,1,2
C9_Witness ==
  /\ prog = "avg" /\ pc = "output_d"
  /\ portD = 30
  /\ samples = <<1, 1, 1, 1, 2>>
  /\ avg_voltage = 1

\* The 10 samples are v nine times and x once, at position p
IsOutlierAt(s, p) ==
  /\ Len(s) = 10
  /\ \A j \in 1..10 : \A k \in 1..10 : (j # p /\ k # p) => s[j] = s[k]
  /\ \A j \in 1..10 : j # p => s[j] # s[p]

\* C10, as amended: when 9 of the 10 samples equal v and one sample, at an
\* interior position 2..9, has another value x, every value emitted in the
\* iteration equals v.
C10_InteriorOutlierSuppressed ==
  prog = "med" =>
     \A p \in 2..9 :
       IsOutlierAt(samples, p) =>
         \A k \in 1..Len(emitted) :
           emitted[k] # samples[p] /\ emitted[k] = samples[IF p = 2 THEN 1 ELSE 2]

C10_Witness ==
  /\ prog = "med" /\ pc = "while"
  /\ IsOutlierAt(samples, 5)
  /\ samples[5] = 255
  /\ emitted = [k \in 1..10 |-> 0]

\* C10, as claimed: when 9 of the 10 samples equal v and one sample, at any
\* position 1..10, has another value x, no value emitted in the iteration
\* equals x.
C10_AnyOutlierSuppressed ==
  prog = "med" =>
     \A p \in 1..10 :
       IsOutlierAt(samples, p) =>
         \A k \in 1..Len(emitted) : emitted[k] # samples[p]

==========================================================================
